---- MODULE Spec2Model ----
(***************************************************************************)
(* Model of the GitHub repository analyzer (src/main.py): the commit       *)
(* activity normalizer (GitHubAPI.fetch_commit_activity), the statistics   *)
(* engine (DataProcessor.calculate_statistics) and the export projector    *)
(* (DataProcessor.prepare_dataframe_for_export).                           *)
(*                                                                         *)
(* Python values are modelled as follows.                                  *)
(*  - A str is a sequence of one-character strings, so that slicing        *)
(*    (s[:n]) and concatenation are the sequence operations.               *)
(*  - A timestamp text is the pair of its numeric fields and of the        *)
(*    literal separators between them: "2024-02-29T10:30:00Z" is           *)
(*    [nums |-> <<2024,2,29,10,30,0>>, seps |-> <<"-","-","T",":",":","Z">>]*)
(*    (zero padding of the fields is not modelled).                        *)
(*  - A datetime is a record of its six fields.                            *)
(*  - A JSON value that may be of any type is [type, num], num being its   *)
(*    value as a Python int when it has one.                               *)
(*  - None is the record None; a float NaN is the record NaN.              *)
(***************************************************************************)
EXTENDS Integers, Sequences, FiniteSets, TLC

VARIABLES
    pc,                 \* "ready" before the operation under study, "done" after
    activity_response,  \* response of .../stats/commit_activity
    commits_response,   \* response of .../commits
    commit_activity,    \* fetch_commit_activity's return value / activity_data
    st_error,           \* the message shown by st.error, "none" if none
    raised,             \* the Python exception the operation raised, "none" if none
    stats,              \* calculate_statistics' return value
    metadata,           \* export input: the metadata dict, as its items in order
    contributors,       \* export input: the contributor list
    clock_reads,        \* the values datetime.now() returned during the export
    export_data,        \* prepare_dataframe_for_export's rows
    analysis_results,   \* GitHubRepoAnalyzer.analysis_results, kept in the session
    repo_url,           \* the argument of the latest analyze_repository call
    returned,           \* what that call returned: "True", "False", or "none"
    calls               \* the number of analyze_repository calls made

\* the state of the analyzer session
session == <<analysis_results, repo_url, returned, calls>>

vars == <<pc, activity_response, commits_response, commit_activity, st_error,
          raised, stats, metadata, contributors, clock_reads, export_data,
          analysis_results, repo_url, returned, calls>>

----------------------------------------------------------------------------
(* Bounds of the model *)

MaxFetchWeeks == 2      \* weekly records in a fetched activity payload
MaxRawCommits == 5      \* raw commit records in a fetched commits payload
ShaLen == 9             \* characters of a full SHA (40 in git; > 7 is what matters)

----------------------------------------------------------------------------
(* Python values *)

None == [none |-> TRUE]

\* the empty dict {}
EmptyDict == [empty |-> TRUE]

\* GitHubRepoAnalyzer.__init__: no results, no call made yet
InitAnalyzer ==
    /\ analysis_results = EmptyDict
    /\ repo_url = <<>>
    /\ returned = "none"
    /\ calls = 0

Min(a, b) == IF a <= b THEN a ELSE b

\* s[:n] for n >= 0
Prefix(s, n) == SubSeq(s, 1, Min(n, Len(s)))

\* s[-n:] for n > 0
Suffix(s, n) == SubSeq(s, Len(s) - Min(n, Len(s)) + 1, Len(s))

\* all sequences over S of length at most n
SeqsUpTo(S, n) == UNION {[1..k -> S] : k \in 0..n}

RECURSIVE SumSeq(_)
SumSeq(s) == IF s = <<>> THEN 0 ELSE s[1] + SumSeq(Tail(s))

----------------------------------------------------------------------------
(* datetime.strptime(text, '%Y-%m-%dT%H:%M:%SZ') *)

IsLeap(y) == (y % 4 = 0 /\ y % 100 # 0) \/ y % 400 = 0

DaysInMonth(y, m) ==
    IF m = 2 THEN (IF IsLeap(y) THEN 29 ELSE 28)
    ELSE IF m \in {4, 6, 9, 11} THEN 30 ELSE 31

CommitDateSeps == <<"-", "-", "T", ":", ":", "Z">>

\* TRUE when strptime returns a datetime, FALSE when it raises ValueError
StrptimeOk(text) ==
    /\ text.seps = CommitDateSeps
    /\ Len(text.nums) = 6
    /\ text.nums[1] \in 1..9999
    /\ text.nums[2] \in 1..12
    /\ text.nums[3] \in 1..DaysInMonth(text.nums[1], text.nums[2])
    /\ text.nums[4] \in 0..23
    /\ text.nums[5] \in 0..59
    /\ text.nums[6] \in 0..59

Strptime(text) ==
    [year |-> text.nums[1], month |-> text.nums[2], day |-> text.nums[3],
     hour |-> text.nums[4], minute |-> text.nums[5], second |-> text.nums[6]]

ExportDateSeps == <<"-", "-", " ", ":", ":">>

\* dt.strftime('%Y-%m-%d %H:%M:%S')
Strftime(dt) ==
    [nums |-> <<dt.year, dt.month, dt.day, dt.hour, dt.minute, dt.second>>,
     seps |-> ExportDateSeps]

----------------------------------------------------------------------------
(* GitHubAPI.fetch_commit_activity, from the two responses on *)

\* the JSON types whose Python value int.__add__ accepts: a JSON number, and
\* true/false, which are the ints 1 and 0 (bool subclasses int)
PythonNumbers == {"number", "boolean"}

\* WeeklyTotalsRaised of a sum written with week.get("total") or 0, `try: int(...)`
\* and the like: nothing is raised, a bad total counts as zero
WeeklyTotalsCoerced(activity_data) == "none"

\* sum([week["total"] for week in activity_data]): the comprehension reads
\* every total first (KeyError on a missing key), then sum adds them to 0
\* (TypeError on a total that is not a number).
WeeklyTotalsRaised(activity_data) ==
    IF \E i \in 1..Len(activity_data) : activity_data[i].total.type = "missing"
    THEN "KeyError"
    ELSE IF \E i \in 1..Len(activity_data) :
                activity_data[i].total.type \notin PythonNumbers
    THEN "TypeError"
    ELSE "none"

WeeklyCommits(activity_data) ==
    SumSeq([i \in 1..Len(activity_data) |-> activity_data[i].total.num])

\* the entry appended for one raw commit whose date parsed
CommitEntry(commit) ==
    [date    |-> Strptime(commit.commit.author.date),
     message |-> commit.commit.message,
     author  |-> commit.commit.author.name,
     sha     |-> Prefix(commit.sha, 7)]

\* CommitLoopStep with `break` written for `continue`: a record that fails to
\* parse empties what was collected instead of being passed over
CommitLoopStepDropping(commit_history, commit) ==
    IF StrptimeOk(commit.commit.author.date)
    THEN Append(commit_history, CommitEntry(commit))
    ELSE <<>>

\* one pass of the body of `for commit in commits_data`: try ... except: continue
CommitLoopStep(commit_history, commit) ==
    IF StrptimeOk(commit.commit.author.date)
    THEN Append(commit_history, CommitEntry(commit))
    ELSE commit_history

RECURSIVE CommitLoop(_, _)
CommitLoop(commit_history, commits_data) ==
    IF commits_data = <<>> THEN commit_history
    ELSE CommitLoop(CommitLoopStep(commit_history, Head(commits_data)),
                    Tail(commits_data))

\* TotalCommits counting the stored entries instead of the fetched page
TotalCommitsStored(commits_data) == Len(CommitLoop(<<>>, commits_data))

\* 'total_commits': len(commits_data)
TotalCommits(commits_data) == Len(commits_data)

\* the outcome [ret, st_error, raised] of fetch_commit_activity
FetchCommitActivityResult(activity, commits) ==
    IF activity.status_code = 200 /\ commits.status_code = 200
    THEN IF WeeklyTotalsRaised(activity.json) # "none"
         THEN [ret |-> None, st_error |-> "Error fetching commit activity",
               raised |-> WeeklyTotalsRaised(activity.json)]
         ELSE [ret |-> [weekly_commits   |-> WeeklyCommits(activity.json),
                        activity_by_week |-> activity.json,
                        commit_history   |-> CommitLoop(<<>>, commits.json),
                        total_commits    |-> TotalCommits(commits.json)],
               st_error |-> "none", raised |-> "none"]
    ELSE IF activity.status_code = 403 \/ commits.status_code = 403
    THEN [ret |-> None, st_error |-> "Rate limit exceeded", raised |-> "none"]
    ELSE [ret |-> None, st_error |-> "Failed to fetch commit data", raised |-> "none"]

----------------------------------------------------------------------------
(* Inputs of the normalizer *)

HexChars == <<"a", "b", "c", "d", "e", "f">>

\* the full SHA of the i-th raw commit: distinct SHAs with distinct 7-prefixes
FullSha(i) == [k \in 1..ShaLen |-> IF k = 1 THEN HexChars[((i - 1) % 6) + 1]
                                   ELSE IF k = 2 THEN HexChars[(((i - 1) \div 6) % 6) + 1]
                                   ELSE "0"]

GoodDateText == [nums |-> <<2024, 2, 29, 10, 30, 0>>, seps |-> CommitDateSeps]
BadDayDateText == [nums |-> <<2023, 2, 29, 10, 30, 0>>, seps |-> CommitDateSeps]
NoZoneDateText == [nums |-> <<2024, 2, 29, 10, 30, 0>>,
                   seps |-> <<"-", "-", " ", ":", ":">>]

DateTexts == {GoodDateText, BadDayDateText, NoZoneDateText}

RawCommit(i, date) ==
    [sha    |-> FullSha(i),
     commit |-> [author  |-> [name |-> "dev", date |-> date],
                 message |-> <<"m", HexChars[((i - 1) % 6) + 1]>>]]

RawCommitLists ==
    {[i \in 1..Len(dates) |-> RawCommit(i, dates[i])] :
        dates \in SeqsUpTo(DateTexts, MaxRawCommits)}

\* a total of 3, of "3", of true, and a record without the key
JsonTotals == {[type |-> "number", num |-> 3], [type |-> "string", num |-> 0],
               [type |-> "boolean", num |-> 1], [type |-> "missing", num |-> 0]}

RawWeeklyLists ==
    {[i \in 1..Len(totals) |-> [week |-> i, total |-> totals[i]]] :
        totals \in SeqsUpTo(JsonTotals, MaxFetchWeeks)}

\* a response is 200 with its payload, or an error status without one
Responses(payloads) ==
    {[status_code |-> 200, json |-> j] : j \in payloads}
    \cup {[status_code |-> c, json |-> <<>>] : c \in {403, 404}}

----------------------------------------------------------------------------
(* The normalizer alone: the responses are drawn, fetch_commit_activity runs *)

InitFetch ==
    /\ pc = "ready"
    /\ activity_response \in Responses(RawWeeklyLists)
    /\ commits_response \in Responses(RawCommitLists)
    /\ commit_activity = None
    /\ st_error = "none"
    /\ raised = "none"
    /\ stats = None
    /\ metadata = <<>>
    /\ contributors = <<>>
    /\ clock_reads = <<>>
    /\ export_data = <<>>
    /\ InitAnalyzer

FetchCommitActivity ==
    /\ pc = "ready"
    /\ LET r == FetchCommitActivityResult(activity_response, commits_response)
       IN /\ commit_activity' = r.ret
          /\ st_error' = r.st_error
          /\ raised' = r.raised
    /\ pc' = "done"
    /\ UNCHANGED <<activity_response, commits_response, stats, metadata,
                   contributors, clock_reads, export_data>>
    /\ UNCHANGED session

NextFetch == FetchCommitActivity

SpecFetch == InitFetch /\ [][NextFetch]_vars

----------------------------------------------------------------------------
(* Claims on the normalizer, under SpecFetch *)

RawCommits == commits_response.json
RawWeekly == activity_response.json
BothOk == activity_response.status_code = 200 /\ commits_response.status_code = 200
Parses(commit) == StrptimeOk(commit.commit.author.date)
AllTotalsNumeric ==
    \A i \in 1..Len(RawWeekly) : RawWeekly[i].total.type \in {"number", "boolean"}
Returned == pc = "done" /\ commit_activity # None

\* the positions of the raw commits whose timestamp parses, in input order
ParsedPositions ==
    SelectSeq([i \in 1..Len(RawCommits) |-> i], LAMBDA i : Parses(RawCommits[i]))

\* C1: the returned commit_history is the input-order subsequence of exactly
\* the raw commits whose author timestamp parses as YYYY-MM-DDTHH:MM:SSZ (each
\* stored with its parsed date, message, author and 7-character SHA), and an
\* unparseable timestamp raises nothing: with both responses 200 and every
\* weekly total numeric a dataset is returned whatever the timestamps are.
C1_CommitHistoryIsParsedSubsequence ==
    /\ (pc = "done" /\ BothOk /\ AllTotalsNumeric)
          => (commit_activity # None /\ raised = "none" /\ st_error = "none")
    /\ Returned =>
          LET h == commit_activity.commit_history
          IN /\ Len(h) = Len(ParsedPositions)
             /\ \A k \in 1..Len(h) :
                   LET raw == RawCommits[ParsedPositions[k]]
                   IN /\ h[k].sha = SubSeq(raw.sha, 1, 7)
                      /\ h[k].message = raw.commit.message
                      /\ h[k].author = raw.commit.author.name
                      /\ h[k].date.year = raw.commit.author.date.nums[1]
                      /\ h[k].date.second = raw.commit.author.date.nums[6]

\* an unparseable record between two parseable ones was passed over
C1_Witness ==
    /\ Returned
    /\ Len(RawCommits) >= 3
    /\ Parses(RawCommits[1]) /\ ~Parses(RawCommits[2]) /\ Parses(RawCommits[3])
    /\ Len(commit_activity.commit_history) >= 2

\* C2: total_commits is the number of raw commit records before elision, so
\* it is at least the number of stored records and exceeds it by exactly the
\* number of skipped records.
C2_TotalCountsRawCommits ==
    Returned =>
        /\ commit_activity.total_commits = Len(RawCommits)
        /\ commit_activity.total_commits >= Len(commit_activity.commit_history)
        /\ commit_activity.total_commits - Len(commit_activity.commit_history)
              = Cardinality({i \in 1..Len(RawCommits) : ~Parses(RawCommits[i])})

\* 5 raw records, 2 of them malformed: 3 stored, total_commits 5
C2_Witness ==
    /\ Returned
    /\ Len(RawCommits) = 5
    /\ Cardinality({i \in 1..5 : ~Parses(RawCommits[i])}) = 2
    /\ Len(commit_activity.commit_history) = 3
    /\ commit_activity.total_commits = 5

\* the exceptions a malformed weekly total raises in fetch_commit_activity
MalformedActivityError == {"KeyError", "TypeError"}

----------------------------------------------------------------------------
(* Floating point values: a finite float is the fraction num/den (den > 0), *)
(* NaN is what numpy returns for the mean of an empty list.                 *)

NaN == [nan |-> TRUE]

Frac(n, d) == [num |-> n, den |-> d]

\* np.mean(xs); the mean of [] is nan (with a RuntimeWarning), not an exception
NpMean(xs) == IF xs = <<>> THEN NaN ELSE Frac(SumSeq(xs), Len(xs))

\* i > x for an int i and a float x: every comparison with nan is False
IntGreaterThan(i, x) == IF x = NaN THEN FALSE ELSE i * x.den > x.num

\* round(x, 2) of a finite x >= 0, in hundredths, ties to even
Round2(x) ==
    LET h == (100 * x.num) \div x.den
        r == 2 * ((100 * x.num) - h * x.den)
    IN Frac(IF r < x.den THEN h
            ELSE IF r > x.den THEN h + 1
            ELSE IF h % 2 = 0 THEN h ELSE h + 1, 100)

RECURSIVE Insert(_, _)
Insert(sorted, v) ==
    IF sorted = <<>> THEN <<v>>
    ELSE IF v <= Head(sorted) THEN <<v>> \o sorted
    ELSE <<Head(sorted)>> \o Insert(Tail(sorted), v)

RECURSIVE Sorted(_)
Sorted(xs) == IF xs = <<>> THEN <<>> ELSE Insert(Sorted(Tail(xs)), Head(xs))

\* np.median(xs) of a non-empty xs: the middle of the sorted values, or the
\* mean of the two middle ones
NpMedian(xs) ==
    LET s == Sorted(xs)
        n == Len(xs)
    IN IF n % 2 = 1 THEN Frac(s[(n + 1) \div 2], 1)
       ELSE Frac(s[n \div 2] + s[(n \div 2) + 1], 2)

\* round(np.std(xs), 2) of a non-empty xs, in hundredths: the population
\* standard deviation sqrt(n*sum(x^2) - sum(x)^2) / n
NpStdRound2(xs) ==
    LET n == Len(xs)
        v == n * SumSeq([i \in 1..n |-> xs[i] * xs[i]]) - SumSeq(xs) * SumSeq(xs)
        top == 100 * SumSeq(xs) + 1
    IN Frac(CHOOSE h \in 0..top :
               /\ 40000 * v < (2 * h + 1) * (2 * h + 1) * n * n
               /\ h = 0 \/ 40000 * v >= (2 * h - 1) * (2 * h - 1) * n * n,
            100)

\* max(xs), min(xs) of a non-empty xs
MaxOf(xs) == CHOOSE v \in {xs[i] : i \in 1..Len(xs)} : \A i \in 1..Len(xs) : xs[i] <= v
MinOf(xs) == CHOOSE v \in {xs[i] : i \in 1..Len(xs)} : \A i \in 1..Len(xs) : v <= xs[i]

----------------------------------------------------------------------------
(* DataProcessor.calculate_statistics *)

WeeklyTotals(activity_data) ==
    [i \in 1..Len(activity_data.activity_by_week) |->
        activity_data.activity_by_week[i].total.num]

\* RecentWeeks taking the whole series
RecentWeeksAll(weekly_totals) == weekly_totals

\* recent_weeks = weekly_totals[-12:]
RecentWeeks(weekly_totals) == Suffix(weekly_totals, 12)

\* "Increasing" if recent_weeks[-1] > np.mean(recent_weeks[:-1]) else "Decreasing"
Trend(recent_weeks) ==
    IF IntGreaterThan(recent_weeks[Len(recent_weeks)],
                      NpMean(SubSeq(recent_weeks, 1, Len(recent_weeks) - 1)))
    THEN "Increasing" ELSE "Decreasing"

\* AverageWeekly dividing by n - 1, the sample formula
AverageWeeklySample(weekly_totals) ==
    IF Len(weekly_totals) = 1 THEN Frac(100 * weekly_totals[1], 100)
    ELSE Round2(Frac(SumSeq(weekly_totals), Len(weekly_totals) - 1))

\* round(np.mean(weekly_totals), 2)
AverageWeekly(weekly_totals) == Round2(NpMean(weekly_totals))

\* the stats dict of a non-empty series
Statistics(activity_data) ==
    LET weekly_totals == WeeklyTotals(activity_data)
    IN [TotalCommits          |-> activity_data.total_commits,
        AverageWeeklyCommits  |-> AverageWeekly(weekly_totals),
        MedianWeeklyCommits   |-> NpMedian(weekly_totals),
        HighestWeeklyActivity |-> MaxOf(weekly_totals),
        LowestWeeklyActivity  |-> MinOf(weekly_totals),
        StandardDeviation     |-> NpStdRound2(weekly_totals),
        RecentActivityTrend   |-> Trend(RecentWeeks(weekly_totals))]

\* CalculateStatisticsResult with max(..., default=0) and min(..., default=0):
\* an empty series yields a report of nan and zeros
CalculateStatisticsDefaulting(activity_data) ==
    IF WeeklyTotals(activity_data) = <<>>
    THEN [ret |-> [TotalCommits          |-> activity_data.total_commits,
                   AverageWeeklyCommits  |-> NaN,
                   MedianWeeklyCommits   |-> NaN,
                   HighestWeeklyActivity |-> 0,
                   LowestWeeklyActivity  |-> 0,
                   StandardDeviation     |-> NaN,
                   RecentActivityTrend   |-> "Decreasing"],
          raised |-> "none"]
    ELSE [ret |-> Statistics(activity_data), raised |-> "none"]

\* the outcome [ret, raised] of calculate_statistics: on an empty series
\* np.mean and np.median return nan and max() raises ValueError
CalculateStatisticsResult(activity_data) ==
    IF WeeklyTotals(activity_data) = <<>>
    THEN [ret |-> None, raised |-> "ValueError"]
    ELSE [ret |-> Statistics(activity_data), raised |-> "none"]

----------------------------------------------------------------------------
(* The statistics engine alone: a dataset is drawn, calculate_statistics runs *)

MaxWeeks == 13          \* weekly points of a series over TwoTotals
MaxShortWeeks == 6      \* weekly points of a series over ThreeTotals

TwoTotals == {0, 1}
ThreeTotals == {0, 1, 4}

WeeklyTotalInputs ==
    SeqsUpTo(TwoTotals, MaxWeeks) \cup SeqsUpTo(ThreeTotals, MaxShortWeeks)

Dataset(totals, history) ==
    [weekly_commits   |-> SumSeq(totals),
     activity_by_week |-> [i \in 1..Len(totals) |->
                              [week |-> i, total |-> [type |-> "number", num |-> totals[i]]]],
     commit_history   |-> history,
     total_commits    |-> Len(history)]

InitStats ==
    /\ pc = "ready"
    /\ activity_response = None
    /\ commits_response = None
    /\ \E totals \in WeeklyTotalInputs : commit_activity = Dataset(totals, <<>>)
    /\ st_error = "none"
    /\ raised = "none"
    /\ stats = None
    /\ metadata = <<>>
    /\ contributors = <<>>
    /\ clock_reads = <<>>
    /\ export_data = <<>>
    /\ InitAnalyzer

CalculateStatistics ==
    /\ pc = "ready"
    /\ LET r == CalculateStatisticsResult(commit_activity)
       IN /\ stats' = r.ret
          /\ raised' = r.raised
    /\ pc' = "done"
    /\ UNCHANGED <<activity_response, commits_response, commit_activity, st_error,
                   metadata, contributors, clock_reads, export_data>>
    /\ UNCHANGED session

NextStats == CalculateStatistics

SpecStats == InitStats /\ [][NextStats]_vars

----------------------------------------------------------------------------
(* Claims on the statistics engine, under SpecStats *)

Totals == WeeklyTotals(commit_activity)
NTotals == Len(Totals)

\* a <= x and x <= b for ints a, b and a finite float x
IntLeq(a, x) == a * x.den <= x.num
LeqInt(x, b) == x.num <= b * x.den

\* C4: on an empty weekly series calculate_statistics fails (EmptyDatasetError
\* is the ValueError of max()) and returns no report.
C4_EmptySeriesFails ==
    (pc = "done" /\ NTotals = 0) => (stats = None /\ raised = "ValueError")

C4_Witness == pc = "done" /\ NTotals = 0 /\ stats = None /\ raised # "none"

\* C5: on a series of exactly one weekly point calculate_statistics fails
\* (InsufficientDataError) and returns no trend label.
C5_SinglePointFails ==
    (pc = "done" /\ NTotals = 1) => (stats = None /\ raised # "none")

\* C6: for a series of n >= 2 totals, with S its last min(12, n) totals, the
\* label is "Increasing" exactly when last(S) * (|S| - 1) > sum of the other
\* elements of S, and "Decreasing" otherwise (ties included); totals before S
\* play no part.
C6_TrendOverLastTwelve ==
    (pc = "done" /\ NTotals >= 2) =>
        LET k == IF NTotals < 12 THEN NTotals ELSE 12
            others == SumSeq([j \in 1..(k - 1) |-> Totals[NTotals - k + j]])
        IN /\ stats # None
           /\ stats.RecentActivityTrend \in {"Increasing", "Decreasing"}
           /\ stats.RecentActivityTrend = "Increasing"
                 <=> Totals[NTotals] * (k - 1) > others

\* more than 12 totals, and the total just before the window would have
\* turned the tie of the window into a different mean
C6_Witness ==
    /\ pc = "done" /\ NTotals > 12
    /\ Totals[NTotals - 12] = 0
    /\ \A j \in (NTotals - 11)..NTotals : Totals[j] = 1
    /\ stats.RecentActivityTrend = "Decreasing"

\* C7: for a series of n >= 2 totals the report has min <= median <= max and
\* min <= mean <= max, where max and min are the largest and smallest totals,
\* median is the exact median of the sorted series and mean is the mean
\* rounded to hundredths.
C7_OrderOfStatistics ==
    (pc = "done" /\ NTotals >= 2) =>
        /\ stats # None
        /\ LET lo  == stats.LowestWeeklyActivity
               hi  == stats.HighestWeeklyActivity
               med == stats.MedianWeeklyCommits
               avg == stats.AverageWeeklyCommits
           IN /\ \E i \in 1..NTotals : Totals[i] = lo
              /\ \E i \in 1..NTotals : Totals[i] = hi
              /\ \A i \in 1..NTotals : lo <= Totals[i] /\ Totals[i] <= hi
              /\ IntLeq(lo, med) /\ LeqInt(med, hi)
              /\ IntLeq(lo, avg) /\ LeqInt(avg, hi)
              \* median: at least half of the totals on either side
              /\ 2 * Cardinality({i \in 1..NTotals : IntLeq(Totals[i], med)}) >= NTotals
              /\ 2 * Cardinality({i \in 1..NTotals : LeqInt(med, Totals[i])}) >= NTotals
              \* mean: within half a hundredth of sum / n
              /\ avg.den = 100
              /\ 2 * (avg.num * NTotals - 100 * SumSeq(Totals)) <= NTotals
              /\ 2 * (100 * SumSeq(Totals) - avg.num * NTotals) <= NTotals

\* a series whose mean is rounded and whose median lies between two totals
C7_Witness ==
    /\ pc = "done" /\ NTotals >= 2 /\ stats # None
    /\ stats.LowestWeeklyActivity < stats.HighestWeeklyActivity
    /\ stats.MedianWeeklyCommits.den = 2 /\ stats.MedianWeeklyCommits.num % 2 = 1
    /\ stats.AverageWeeklyCommits.num * NTotals # 100 * SumSeq(Totals)

----------------------------------------------------------------------------
(* DataProcessor.prepare_dataframe_for_export *)

DigitChars == <<"0", "1", "2", "3", "4", "5", "6", "7", "8", "9">>

\* str(n) of an int n >= 0
RECURSIVE Str(_)
Str(n) == IF n < 10 THEN <<DigitChars[n + 1]>>
          ELSE Append(Str(n \div 10), DigitChars[(n % 10) + 1])

Ellipsis == <<".", ".", ".">>

\* TruncateMessage cutting at len(message) >= 100
TruncateMessageFrom100(message) ==
    IF Len(message) >= 100 THEN Prefix(message, 100) \o Ellipsis ELSE message

\* commit['message'][:100] + '...' if len(commit['message']) > 100 else commit['message']
TruncateMessage(message) ==
    IF Len(message) > 100 THEN Prefix(message, 100) \o Ellipsis ELSE message

\* RowTime of one clock read made before the loops and used by every row
RowTimeBatch(reads, r) == reads[1]

\* the r-th call of datetime.now() in one invocation returns the r-th reading
RowTime(reads, r) == reads[r]

MetadataRow(item, now) ==
    [Category |-> "Metadata", Item |-> item.key, Value |-> Str(item.value),
     Date |-> Strftime(now)]

ContributorRow(contributor, now) ==
    [Category |-> "Contributors", Item |-> contributor.login,
     Value |-> contributor.contributions, Date |-> Strftime(now)]

CommitRow(commit) ==
    [Category |-> "Commits", Item |-> commit.sha,
     Value |-> TruncateMessage(commit.message), Date |-> Strftime(commit.date)]

\* ExportedContributors without the slice
ExportedContributorsAll(contributor_list) == contributor_list

\* contributors[:10]
ExportedContributors(contributor_list) == Prefix(contributor_list, 10)

\* activity_data['commit_history'][:20]
ExportedCommits(activity_data) == Prefix(activity_data.commit_history, 20)

\* the number of datetime.now() calls of one invocation
ClockCalls(metadata_items, contributor_list) ==
    Len(metadata_items) + Len(ExportedContributors(contributor_list))

\* export_data, given the readings of the clock in call order
PrepareDataframeForExport(metadata_items, contributor_list, activity_data, reads) ==
    LET top == ExportedContributors(contributor_list)
        m == Len(metadata_items)
    IN [i \in 1..m |-> MetadataRow(metadata_items[i], RowTime(reads, i))]
       \o [i \in 1..Len(top) |-> ContributorRow(top[i], RowTime(reads, m + i))]
       \o [i \in 1..Len(ExportedCommits(activity_data)) |->
              CommitRow(ExportedCommits(activity_data)[i])]

----------------------------------------------------------------------------
(* The export projector alone: the arguments are drawn, the clock runs *)

MaxFields == 3          \* fields of the metadata dict
MaxContributors == 12   \* contributors passed in
MaxHistory == 25        \* commit records passed in
MaxTicks == 1           \* changes of the clock's second during one invocation

\* the keys of the dict fetch_repo_metadata builds, in order
MetadataKeys == <<"name", "description", "stars", "forks", "open_issues",
                  "created_at", "updated_at", "language", "size", "watchers",
                  "default_branch", "license", "topics">>

MetadataItems(m) == [i \in 1..m |-> [key |-> MetadataKeys[i], value |-> 7 * i]]

ContributorList(c) ==
    [i \in 1..c |-> [login |-> <<"u">> \o Str(i), contributions |-> 100 - i,
                     type |-> "User"]]

\* message lengths around the 100-character limit, by position
MessageLengths == <<150, 50, 100, 101, 0, 99>>

MessageOfLength(n) == [k \in 1..n |-> HexChars[(k % 6) + 1]]

CommitHistory(n) ==
    [i \in 1..n |->
        [date    |-> [year |-> 2024, month |-> 2, day |-> 29, hour |-> 10,
                      minute |-> 30, second |-> i],
         message |-> MessageOfLength(MessageLengths[((i - 1) % 6) + 1]),
         author  |-> "dev",
         sha     |-> Prefix(FullSha(i), 7)]]

\* the clock when the invocation starts
StartTime == [year |-> 2026, month |-> 11, day |-> 5, hour |-> 12,
              minute |-> 0, second |-> 0]

\* the readings of n calls of datetime.now() when the k-th change of the
\* second falls after ticks[k] calls
ClockReadings(n, ticks) ==
    [r \in 1..n |->
        [StartTime EXCEPT !.second = Cardinality({k \in DOMAIN ticks : ticks[k] < r})]]

InitExport ==
    /\ pc = "ready"
    /\ activity_response = None
    /\ commits_response = None
    /\ \E k \in 0..MaxHistory :
          commit_activity = Dataset(<<1, 0, 1>>, CommitHistory(k))
    /\ st_error = "none"
    /\ raised = "none"
    /\ stats = None
    /\ \E m \in 0..MaxFields : metadata = MetadataItems(m)
    /\ \E c \in 0..MaxContributors : contributors = ContributorList(c)
    /\ clock_reads = <<>>
    /\ export_data = <<>>
    /\ InitAnalyzer

PrepareExport ==
    /\ pc = "ready"
    /\ \E ticks \in [1..MaxTicks -> 0..ClockCalls(metadata, contributors)] :
          /\ clock_reads' = ClockReadings(ClockCalls(metadata, contributors), ticks)
          /\ export_data' = PrepareDataframeForExport(metadata, contributors,
                                                      commit_activity, clock_reads')
    /\ pc' = "done"
    /\ UNCHANGED <<activity_response, commits_response, commit_activity, st_error,
                   raised, stats, metadata, contributors>>
    /\ UNCHANGED session

NextExport == PrepareExport

SpecExport == InitExport /\ [][NextExport]_vars

----------------------------------------------------------------------------
(* Claims on the export projector, under SpecExport *)

Exported == pc = "done"
NFields == Len(metadata)
NContributorRows == IF Len(contributors) < 10 THEN Len(contributors) ELSE 10
History == commit_activity.commit_history
NCommitRows == IF Len(History) < 20 THEN Len(History) ELSE 20

\* C8: the projector returns exactly M + min(C, 10) + min(K, 20) rows: one
\* Metadata row per field, then one Contributors row for each of the first
\* min(C, 10) contributors in input order, then one Commits row for each of
\* the first min(K, 20) commit records in input order.
C8_ExportRows ==
    Exported =>
        /\ Len(export_data) = NFields + NContributorRows + NCommitRows
        /\ \A i \in 1..NFields :
              /\ export_data[i].Category = "Metadata"
              /\ export_data[i].Item = metadata[i].key
        /\ \A i \in 1..NContributorRows :
              /\ export_data[NFields + i].Category = "Contributors"
              /\ export_data[NFields + i].Item = contributors[i].login
              /\ export_data[NFields + i].Value = contributors[i].contributions
        /\ \A i \in 1..NCommitRows :
              /\ export_data[NFields + NContributorRows + i].Category = "Commits"
              /\ export_data[NFields + NContributorRows + i].Item = History[i].sha

\* 3 fields, 12 contributors and 25 commits give 33 rows
C8_Witness ==
    /\ Exported
    /\ NFields = 3 /\ Len(contributors) = 12 /\ Len(History) = 25
    /\ Len(export_data) = 33

\* C9: the value of a commit row is the message unchanged when it has at most
\* 100 characters, and its first 100 characters followed by "..." otherwise.
C9_MessageTruncation ==
    Exported =>
        \A i \in 1..NCommitRows :
            LET row == export_data[NFields + NContributorRows + i]
                message == History[i].message
            IN /\ row.Category = "Commits"
               /\ Len(message) <= 100 => row.Value = message
               /\ Len(message) > 100 =>
                     /\ Len(row.Value) = 103
                     /\ SubSeq(row.Value, 1, 100) = SubSeq(message, 1, 100)
                     /\ SubSeq(row.Value, 101, 103) = <<".", ".", ".">>

\* messages of 150, 50 and 100 characters were exported
C9_Witness ==
    /\ Exported
    /\ \E i, j, k \in 1..NCommitRows :
          /\ Len(History[i].message) = 150
          /\ Len(export_data[NFields + NContributorRows + i].Value) = 103
          /\ Len(History[j].message) = 50
          /\ Len(export_data[NFields + NContributorRows + j].Value) = 50
          /\ Len(History[k].message) = 100
          /\ Len(export_data[NFields + NContributorRows + k].Value) = 100

\* C10 as claimed: every row of one invocation carries the same Date
C10_SingleBatchTimestamp ==
    Exported =>
        \A i, j \in 1..Len(export_data) : export_data[i].Date = export_data[j].Date

\* C10 as the code has it: each Metadata and Contributors row carries the
\* wall-clock time read by its own datetime.now() call, one call per row in
\* row order, so these rows agree when the clock did not change between the
\* calls; each Commits row carries the date of its own commit record.
C10_DatePerRow ==
    Exported =>
        /\ Len(clock_reads) = NFields + NContributorRows
        /\ \A r \in 1..(NFields + NContributorRows) :
              /\ export_data[r].Category \in {"Metadata", "Contributors"}
              /\ export_data[r].Date = Strftime(clock_reads[r])
        /\ \A i \in 1..NCommitRows :
              export_data[NFields + NContributorRows + i].Date
                  = Strftime(History[i].date)

\* the clock changed between two wall-clock rows, and a commit row carries a
\* date that is none of the clock's readings
C10_Witness ==
    /\ Exported
    /\ NFields >= 1 /\ NContributorRows >= 1 /\ NCommitRows >= 1
    /\ export_data[1].Date # export_data[NFields + 1].Date
    /\ \A r \in 1..Len(clock_reads) :
          export_data[NFields + NContributorRows + 1].Date # Strftime(clock_reads[r])

----------------------------------------------------------------------------
(* GitHubAPI.parse_repo_url, fetch_repo_metadata, fetch_contributors *)

\* s.rstrip("/")
RECURSIVE RStrip(_)
RStrip(s) == IF s # <<>> /\ s[Len(s)] = "/" THEN RStrip(SubSeq(s, 1, Len(s) - 1))
             ELSE s

\* s.split("/")
RECURSIVE Split(_)
Split(s) ==
    IF \E i \in 1..Len(s) : s[i] = "/"
    THEN LET i == CHOOSE i \in 1..Len(s) : s[i] = "/" /\ \A j \in 1..(i - 1) : s[j] # "/"
         IN <<SubSeq(s, 1, i - 1)>> \o Split(SubSeq(s, i + 1, Len(s)))
    ELSE <<s>>

\* parse_repo_url: parts[-2] raises IndexError on a single part, which is
\* caught and reported, and (None, None) is returned; None is given as the
\* empty str here, both being falsy to the callers' `not owner or not repo`
ParseRepoUrl(url) ==
    LET parts == Split(RStrip(url))
    IN IF Len(parts) < 2
       THEN [owner |-> <<>>, repo |-> <<>>, st_error |-> "Invalid GitHub repository URL"]
       ELSE [owner |-> parts[Len(parts) - 1], repo |-> parts[Len(parts)],
             st_error |-> "none"]

\* `if not owner or not repo: return None` of the three fetch methods
NoOwnerOrRepo(url) == ParseRepoUrl(url).owner = <<>> \/ ParseRepoUrl(url).repo = <<>>

\* the keys read from the API's repository object, in the order of MetadataKeys
ApiKeys == <<"name", "description", "stargazers_count", "forks_count",
             "open_issues_count", "created_at", "updated_at", "language", "size",
             "watchers_count", "default_branch", "license", "topics">>

\* the outcome [ok, ret, st_error] of fetch_repo_metadata; ok is the
\* truthiness of ret to `if not metadata`
FetchRepoMetadataResult(url, response) ==
    IF NoOwnerOrRepo(url)
    THEN [ok |-> FALSE, ret |-> None, st_error |-> ParseRepoUrl(url).st_error]
    ELSE IF response.status_code = 200
    THEN [ok |-> TRUE,
          ret |-> [i \in 1..Len(MetadataKeys) |->
                      [key |-> MetadataKeys[i], value |-> response.json[ApiKeys[i]]]],
          st_error |-> "none"]
    ELSE [ok |-> FALSE, ret |-> None,
          st_error |-> IF response.status_code = 403 THEN "Rate limit exceeded"
                       ELSE IF response.status_code = 404 THEN "Repository not found"
                       ELSE "Failed to fetch repository metadata"]

\* the outcome [ok, ret, st_error] of fetch_contributors; ok is the
\* truthiness of ret to `if not contributors`: an empty list is falsy
FetchContributorsResult(url, response) ==
    IF NoOwnerOrRepo(url)
    THEN [ok |-> FALSE, ret |-> None, st_error |-> ParseRepoUrl(url).st_error]
    ELSE IF response.status_code = 200
    THEN [ok |-> response.json # <<>>, ret |-> response.json, st_error |-> "none"]
    ELSE [ok |-> FALSE, ret |-> None,
          st_error |-> IF response.status_code = 403 THEN "Rate limit exceeded"
                       ELSE IF response.status_code = 404 THEN "Contributors data not found"
                       ELSE "Failed to fetch contributors"]

\* fetch_commit_activity from the URL on
FetchCommitActivityOf(url, activity, commits) ==
    IF NoOwnerOrRepo(url)
    THEN [ret |-> None, st_error |-> ParseRepoUrl(url).st_error, raised |-> "none"]
    ELSE FetchCommitActivityResult(activity, commits)

----------------------------------------------------------------------------
(* GitHubRepoAnalyzer.analyze_repository and export_analysis *)

\* StoredResults of a version that catches the exception of the statistics
\* and stores what it has
StoredResultsPartial(old, metadata_, contributors_, commit_activity_, statistics) ==
    [metadata        |-> metadata_,
     contributors    |-> contributors_,
     commit_activity |-> commit_activity_,
     statistics      |-> statistics.ret]

\* self.analysis_results = {...}: the dict is built first, so when
\* calculate_statistics raises nothing is assigned
StoredResults(old, metadata_, contributors_, commit_activity_, statistics) ==
    IF statistics.raised # "none" THEN old
    ELSE [metadata        |-> metadata_,
          contributors    |-> contributors_,
          commit_activity |-> commit_activity_,
          statistics      |-> statistics.ret]

\* a call that stopped before storing anything
Stopped(old, ret, st_error_, metadata_, contributors_, activity, commits, commit_activity_, raised_) ==
    [returned |-> ret, analysis_results |-> old, st_error |-> st_error_,
     metadata |-> metadata_, contributors |-> contributors_,
     activity_response |-> activity, commits_response |-> commits,
     commit_activity |-> commit_activity_, stats |-> None, raised |-> raised_]

\* analyze_repository(url) on results `old`, given the responses the three
\* fetches get if they are made: the new analysis_results, the return value
\* and the locals (None for one never assigned, a response never requested)
AnalyzeRepositoryResult(url, old, metadata_response, contributors_response, activity, commits) ==
    LET m == FetchRepoMetadataResult(url, metadata_response)
        c == FetchContributorsResult(url, contributors_response)
        a == FetchCommitActivityOf(url, activity, commits)
        s == CalculateStatisticsResult(a.ret)
    IN IF url = <<>>
       THEN Stopped(old, "False", "Please enter a GitHub repository URL",
                    None, None, None, None, None, "none")
       ELSE IF ~m.ok
       THEN Stopped(old, "False", m.st_error, m.ret, None, None, None, None, "none")
       ELSE IF ~c.ok
       THEN Stopped(old, "False", c.st_error, m.ret, c.ret, None, None, None, "none")
       ELSE IF a.ret = None
       THEN Stopped(old, "False", a.st_error, m.ret, c.ret, activity, commits,
                    a.ret, a.raised)
       ELSE [returned |-> IF s.raised # "none" THEN "none" ELSE "True",
             analysis_results |-> StoredResults(old, m.ret, c.ret, a.ret, s),
             st_error |-> "none",
             metadata |-> m.ret, contributors |-> c.ret,
             activity_response |-> activity, commits_response |-> commits,
             commit_activity |-> a.ret, stats |-> s.ret, raised |-> s.raised]

----------------------------------------------------------------------------
(* One analyzer in a session: analyze_repository and export_analysis are    *)
(* called in any order.  analysis_results and calls persist; the other      *)
(* variables hold the arguments and locals of the latest operation only.    *)

MaxCalls == 3           \* analyze_repository calls in one session

\* "", "r", "/r" and "h://g/o/r/"
RepoUrls == {<<>>, <<"r">>, <<"/", "r">>,
             <<"h", ":", "/", "/", "g", "/", "o", "/", "r", "/">>}

\* the repository object of the API, its values told apart by `seed`
RepoData(seed) ==
    [k \in {ApiKeys[i] : i \in 1..Len(ApiKeys)} |->
        100 * seed + (CHOOSE i \in 1..Len(ApiKeys) : ApiKeys[i] = k)]

MetadataResponses == Responses({RepoData(1), RepoData(2)})

ContributorsResponses ==
    Responses({ContributorList(0), ContributorList(1), ContributorList(2)})

WeeklyRecords(totals) == [i \in 1..Len(totals) |-> [week |-> i, total |-> totals[i]]]

\* no weekly record, one, two, and two of which one has a str total
SessionActivityResponses ==
    Responses({WeeklyRecords(<<>>),
               WeeklyRecords(<<[type |-> "number", num |-> 3]>>),
               WeeklyRecords(<<[type |-> "number", num |-> 3],
                               [type |-> "number", num |-> 5]>>),
               WeeklyRecords(<<[type |-> "number", num |-> 3],
                               [type |-> "string", num |-> 0]>>)})

SessionCommitsResponses ==
    Responses({<<>>, <<RawCommit(1, GoodDateText), RawCommit(2, BadDayDateText)>>})

InitSession ==
    /\ pc = "ready"
    /\ activity_response = None
    /\ commits_response = None
    /\ commit_activity = None
    /\ st_error = "none"
    /\ raised = "none"
    /\ stats = None
    /\ metadata = None
    /\ contributors = None
    /\ clock_reads = <<>>
    /\ export_data = <<>>
    /\ InitAnalyzer

\* the responses a call gets are drawn for the requests it makes: none is
\* made after a fetch that returned nothing
AnalyzeRepository ==
    /\ calls < MaxCalls
    /\ \E url \in RepoUrls, mr \in MetadataResponses :
       \E cr \in IF url # <<>> /\ FetchRepoMetadataResult(url, mr).ok
                 THEN ContributorsResponses ELSE {None} :
       \E ar \in IF cr # None /\ FetchContributorsResult(url, cr).ok
                 THEN SessionActivityResponses ELSE {None} :
       \E hr \in IF ar # None THEN SessionCommitsResponses ELSE {None} :
       \E r \in {AnalyzeRepositoryResult(url, analysis_results, mr, cr, ar, hr)} :
          /\ repo_url' = url
          /\ analysis_results' = r.analysis_results
          /\ returned' = r.returned
          /\ st_error' = r.st_error
          /\ metadata' = r.metadata
          /\ contributors' = r.contributors
          /\ activity_response' = r.activity_response
          /\ commits_response' = r.commits_response
          /\ commit_activity' = r.commit_activity
          /\ stats' = r.stats
          /\ raised' = r.raised
    /\ calls' = calls + 1
    /\ pc' = "analyzed"
    /\ clock_reads' = <<>>
    /\ export_data' = <<>>

\* when the clock's second may change during an export of the session:
\* before the first row, between the Metadata and the Contributors rows, or
\* after the last call of datetime.now()
SessionTicks(metadata_items, contributor_list) ==
    {0, Len(metadata_items), ClockCalls(metadata_items, contributor_list)}

\* export_analysis: nothing without results, else the rows of the stored ones
ExportAnalysis ==
    /\ IF analysis_results = EmptyDict
       THEN /\ st_error' = "No analysis results available"
            /\ metadata' = None
            /\ contributors' = None
            /\ commit_activity' = None
            /\ clock_reads' = <<>>
            /\ export_data' = <<>>
       ELSE /\ st_error' = "none"
            /\ metadata' = analysis_results.metadata
            /\ contributors' = analysis_results.contributors
            /\ commit_activity' = analysis_results.commit_activity
            /\ \E ticks \in [1..MaxTicks -> SessionTicks(metadata', contributors')] :
                  clock_reads' = ClockReadings(ClockCalls(metadata', contributors'), ticks)
            /\ export_data' = PrepareDataframeForExport(metadata', contributors',
                                                        commit_activity', clock_reads')
    /\ pc' = "exported"
    /\ activity_response' = None
    /\ commits_response' = None
    /\ stats' = None
    /\ raised' = "none"
    /\ repo_url' = <<>>
    /\ returned' = "none"
    /\ UNCHANGED <<analysis_results, calls>>

NextSession == AnalyzeRepository \/ ExportAnalysis

SpecSession == InitSession /\ [][NextSession]_vars

----------------------------------------------------------------------------
(* Claim on the analyzer session, under SpecSession *)

ResultKeys == {"metadata", "contributors", "commit_activity", "statistics"}

\* the four values the call that has just ended fetched and computed
ResultsOfThisCall ==
    [metadata        |-> metadata',
     contributors    |-> contributors',
     commit_activity |-> commit_activity',
     statistics      |-> stats']

\* what a complete result is: all four keys, none of them empty, the
\* statistics those of its own commit activity
CompleteResults(results) ==
    /\ DOMAIN results = ResultKeys
    /\ Len(results.metadata) = Len(MetadataKeys)
    /\ Len(results.contributors) >= 1
    /\ DOMAIN results.commit_activity
          = {"weekly_commits", "activity_by_week", "commit_history", "total_commits"}
    /\ DOMAIN results.statistics
          = {"TotalCommits", "AverageWeeklyCommits", "MedianWeeklyCommits",
             "HighestWeeklyActivity", "LowestWeeklyActivity", "StandardDeviation",
             "RecentActivityTrend"}
    /\ results.statistics.TotalCommits = results.commit_activity.total_commits
    /\ results.statistics.HighestWeeklyActivity
          = MaxOf(WeeklyTotals(results.commit_activity))

AnalyzeStep == calls' = calls + 1

\* C11: analysis_results is always empty or a complete result of one call;
\* a call of analyze_repository that returns True stores exactly what it
\* fetched and computed, every other call (empty URL, a failed or empty
\* fetch, an exception of the statistics) leaves analysis_results as it was,
\* and so does export_analysis.
C11_ResultsReplacedWhole ==
    /\ [](analysis_results = EmptyDict \/ CompleteResults(analysis_results))
    /\ [][/\ (AnalyzeStep /\ returned' = "True")
                => /\ repo_url' # <<>> /\ raised' = "none"
                   /\ analysis_results' = ResultsOfThisCall
          /\ (AnalyzeStep /\ returned' # "True")
                => analysis_results' = analysis_results
          /\ ~AnalyzeStep => analysis_results' = analysis_results]_vars

\* the statistics of a later call raised on an empty weekly series, and the
\* results of an earlier call, for another repository object, are still held
C11_Witness ==
    /\ pc = "analyzed" /\ calls >= 2
    /\ raised = "ValueError" /\ returned = "none"
    /\ CompleteResults(analysis_results)
    /\ analysis_results.metadata # metadata
    /\ analysis_results.commit_activity # commit_activity

====
